---- MODULE Spec2Model ----
(***************************************************************************)
(* Bluetooth status indicator of the CZMAOWL17 keyboard firmware           *)
(* (src/src/main.rs): a shared AtomicU8 cell BLE_STATE written by the      *)
(* simulator task and by handle_ble_event, polled by ble_indicator_task,   *)
(* which drives the NumLock LED.  Tasks run on one cooperative executor;   *)
(* a task runs from one await to the next without interruption.            *)
(*                                                                         *)
(* Time is in milliseconds.  Every task holds the remaining time of the    *)
(* Timer it awaits; Tick advances all of them by Quantum, the greatest     *)
(* common divisor of every delay of the program, and only when no task is  *)
(* runnable (the executor polls every woken task before it sleeps again).  *)
(*                                                                         *)
(* The indicator's step from the end of an arm to the top of its loop      *)
(* (IndArmEnd) and its load of the cell (IndLoad) are two steps with no    *)
(* time between them, as are the simulator's steps SimWake and SimIter:    *)
(* the state between them is the one in which the task is about to read    *)
(* or write the cell.                                                      *)
(*                                                                         *)
(* The module also holds the storage clear of the keyboard firmware's      *)
(* startup (src/src/src/main.rs), a program of its own with variables of   *)
(* its own: main waits on the BOOT button, erases the last pages of the    *)
(* flash and halts, or starts the keyboard.  The indicator leaves the      *)
(* variables of the storage clear alone, and the storage clear those of    *)
(* the indicator.                                                          *)
(***************************************************************************)
EXTENDS Integers, Naturals, Sequences, FiniteSets, TLC

VARIABLES
    BLE_STATE,   \* the AtomicU8 cell (main.rs:23)
    led,         \* level of the P1_11 output: "low" | "high"
    mainPc,      \* main: "boot" | "sleep"
    mainTimer,   \* remaining ms of main's Timer::after (main.rs:54)
    indPc,       \* ble_indicator_task: "unspawned" | "loop" | the await it is parked on
    indTimer,    \* remaining ms of the indicator's Timer::after
    state,       \* the indicator's local `state` (main.rs:64); NoValue before the first load
    burst,       \* pairs completed by the LowBattery arm's `for _ in 0..3` (main.rs:98)
    simPc,       \* ble_simulator_task: "unspawned" | "start" | "iter" | "wait"
    simIdx,      \* index into `states` of the current iteration (main.rs:129)
    simTimer,    \* remaining ms of the simulator's Timer::after (main.rs:139)
    probe,       \* which history this run records: "plain" | "age" | "skip" | "event"
    lastPub,     \* value of the most recent store into BLE_STATE (history)
    unread,      \* a store into BLE_STATE happened since the indicator's last load (history)
    sinceRead,   \* ms since the indicator's last load of BLE_STATE (history)
    staleAge,    \* ms since the store that gave BLE_STATE its value, while that value
                 \* differs from the one the indicator holds; 0 otherwise (history, probe "age")
    skipped,     \* the value a store overwrote, unread, with a different one, in the
                 \* latest interval between two loads that saw a store (history, probe "skip")
    shown,       \* how far the indicator is with the value the cell holds since the store
                 \* that changed the cell to it: "no" | "read" loaded | "done" an arm
                 \* completed (history, probe "show")
    event,       \* the BleEvent whose store is the latest one, until the indicator's
                 \* next load; NoEvent otherwise (history, probe "event")
    kbPc,        \* keyboard main: "boot" | "sample" | "gate_wait" | "clear" | "halt" |
                 \* "keyboard" | "run"
    button,      \* level of the P0_11 input (pull-up): "low" pressed | "high" released
    polls,       \* iterations of `for _ in 0..30` completed (src/main.rs:88)
    gateTimer,   \* remaining ms of the gate's Timer::after (src/main.rs:90)
    page,        \* `i` of `for i in 0..FLASH_PAGES` (src/main.rs:118)
    erases,      \* the flash.erase calls issued so far, in order: [from, to, ok] (history)
    result,      \* what clear_eeprom returned: "none" | "ok" | "err"
    reported,    \* error!("清除失败") was logged (src/main.rs:32)
    upMs,        \* ms since the keyboard firmware started (history)
    lowReads,    \* reads of the button by the gate that returned low (history)
    released     \* a read of the button by the gate returned high (history)

histVars == <<probe, lastPub, unread, sinceRead, staleAge, skipped, shown, event>>
bleVars == <<BLE_STATE, led, mainPc, mainTimer, indPc, indTimer, state, burst,
             simPc, simIdx, simTimer,
             probe, lastPub, unread, sinceRead, staleAge, skipped, shown, event>>
eepVars == <<kbPc, button, polls, gateTimer, page, erases, result, reported, upMs,
             lowReads, released>>
vars == <<bleVars, eepVars>>

(***************************************************************************)
(* Bounds of the model.                                                    *)
(***************************************************************************)
MaxAge == 1700      \* cap of the ms counters sinceRead and staleAge

(***************************************************************************)
(* The history variables record what the properties speak of and the       *)
(* program does not keep; nothing of the program reads them.  probe, fixed *)
(* by Init, selects the ones a run records, the others stay as Init left   *)
(* them: "age" records staleAge, "skip" records skipped, "event" records   *)
(* event.  "show" records shown: it is the probe of the runs in which the  *)
(* simulator is the only writer of the cell.  lastPub, unread and          *)
(* sinceRead are recorded in every run.                                    *)
(***************************************************************************)
Probes == {"plain", "age", "skip", "event"}

(***************************************************************************)
(* Program constants.                                                      *)
(***************************************************************************)
U8Max == 255                 \* AtomicU8
NoValue == 0 - 1             \* no value: `state` before the first load

DisconnectedOnMs == 100      \* main.rs:77
DisconnectedOffMs == 900     \* main.rs:79
AdvertisingOnMs == 250       \* main.rs:85
AdvertisingOffAsSlowBlink == DisconnectedOffMs   \* mutant: the slow blink's off time
AdvertisingOffMs == 250      \* main.rs:87
ConnectedHoldTwice == 2 * 1000                   \* mutant: from_secs(2)
ConnectedHoldMs == 1000      \* main.rs:93
LowBatteryBurstsShort == 3 - 1                   \* mutant: `for _ in 0..2`
LowBatteryBursts == 3        \* main.rs:98
LowBatteryOnMs == 100        \* main.rs:100
LowBatteryOffMs == 100       \* main.rs:102
LowBatteryPauseLong == 2 * 1000                  \* mutant: from_millis(2000)
LowBatteryPauseMs == 1000    \* main.rs:104
MainSleepMs == 1000          \* main.rs:54
InitialConnected == 1 + 1                        \* mutant: AtomicU8::new(2)
InitialState == 0            \* main.rs:23
SimInitialUnknown == 3 + 1                       \* mutant: a fifth state stored first
SimInitialStore == 1         \* main.rs:117

\* mutant: the low battery lasts one second
statesShortLowBattery ==
    << [duration |-> 5000,  state |-> 1],
       [duration |-> 10000, state |-> 2],
       [duration |-> 5000,  state |-> 0],
       [duration |-> 1000,  state |-> 3],
       [duration |-> 5000,  state |-> 1],
       [duration |-> 5000,  state |-> 2] >>

\* main.rs:120-127: (duration, state) pairs the simulator cycles through
states ==
    << [duration |-> 5000,  state |-> 1],
       [duration |-> 10000, state |-> 2],
       [duration |-> 5000,  state |-> 0],
       [duration |-> 3000,  state |-> 3],
       [duration |-> 5000,  state |-> 1],
       [duration |-> 5000,  state |-> 2] >>

Min(a, b) == IF a <= b THEN a ELSE b

RECURSIVE GCD(_, _)
GCD(a, b) == IF b = 0 THEN a ELSE GCD(b, a % b)

RECURSIVE GCDSeq(_)
GCDSeq(s) == IF s = <<>> THEN 0 ELSE GCD(Head(s), GCDSeq(Tail(s)))

\* every delay the three tasks await
Delays ==
    << DisconnectedOnMs, DisconnectedOffMs, AdvertisingOnMs, AdvertisingOffMs,
       ConnectedHoldMs, LowBatteryOnMs, LowBatteryOffMs, LowBatteryPauseMs,
       MainSleepMs >> \o [k \in 1..Len(states) |-> states[k].duration]

Quantum == GCDSeq(Delays)

(***************************************************************************)
(* main.rs:65-71: decoding of the cell's value.                            *)
(***************************************************************************)
\* mutant: the value masked to two bits instead of the default arm
DecodeMasked(n) ==
    CASE n % 4 = 0 -> "Disconnected"
      [] n % 4 = 1 -> "Advertising"
      [] n % 4 = 2 -> "Connected"
      [] OTHER -> "LowBattery"

Decode(n) ==
    CASE n = 0 -> "Disconnected"
      [] n = 1 -> "Advertising"
      [] n = 2 -> "Connected"
      [] n = 3 -> "LowBattery"
      [] OTHER -> "Disconnected"

\* main.rs:169-175: BleEvent, and "Other" for the events of `_ => {}` (main.rs:163)
BleEvents ==
    [kind : {"Connected", "Disconnected"}, handle : {0, 65535}]
    \cup [kind : {"AdvertisingStarted", "BatteryLow", "Other"}, handle : {0}]

\* no event: the latest store is the simulator's, or the indicator has loaded since
NoEvent == [kind |-> "None", handle |-> 0]

\* mutant: a connection reported with the invalid handle 0xFFFF counts as none
EventValueChecksHandle(e) ==
    CASE e.kind = "Connected" -> IF e.handle = 65535 THEN 0 ELSE 2
      [] e.kind = "Disconnected" -> 0
      [] e.kind = "AdvertisingStarted" -> 1
      [] e.kind = "BatteryLow" -> 3
      [] OTHER -> NoValue

\* main.rs:146-164: the value handle_ble_event stores for an event; NoValue: no store
EventValue(e) ==
    CASE e.kind = "Connected" -> 2
      [] e.kind = "Disconnected" -> 0
      [] e.kind = "AdvertisingStarted" -> 1
      [] e.kind = "BatteryLow" -> 3
      [] OTHER -> NoValue

(***************************************************************************)
(* BLE_STATE.store(v, SeqCst) (main.rs:117,130,148,152,156,160): the cell  *)
(* takes v whatever it held.  The store touches nothing of the indicator   *)
(* task.                                                                   *)
(***************************************************************************)
\* mutant: a value not loaded yet is kept, the new one dropped
StoredFirstWins(old, v) == IF unread THEN old ELSE v

StoredValue(old, v) == v

\* mutant: a store wakes the indicator, which starts over at the top of its loop
StoreWakes(v) ==
    /\ BLE_STATE' = v
    /\ lastPub' = v
    /\ unread' = TRUE
    /\ staleAge' = IF v # BLE_STATE THEN 0 ELSE staleAge
    /\ skipped' = skipped
    /\ shown' = IF probe = "show" /\ v # BLE_STATE THEN "no" ELSE shown
    /\ indPc' = IF indPc = "unspawned" THEN indPc ELSE "loop"
    /\ indTimer' = 0
    /\ UNCHANGED <<led, state, burst, sinceRead, probe>>

Store(v) ==
    /\ BLE_STATE' = StoredValue(BLE_STATE, v)
    /\ lastPub' = v
    /\ unread' = TRUE
    /\ staleAge' = IF v # BLE_STATE THEN 0 ELSE staleAge
    /\ skipped' = CASE probe # "skip" -> skipped
                     [] ~unread -> NoValue
                     [] v # lastPub -> lastPub
                     [] OTHER -> skipped
    /\ shown' = IF probe = "show" /\ v # BLE_STATE THEN "no" ELSE shown
    /\ UNCHANGED <<led, indPc, indTimer, state, burst, sinceRead, probe>>

\* src/main.rs:18-22: the keyboard firmware at reset, the BOOT button at `level`
KbReset(level) ==
    /\ kbPc = "boot"
    /\ button = level
    /\ polls = 0
    /\ gateTimer = 0
    /\ page = 0
    /\ erases = <<>>
    /\ result = "none"
    /\ reported = FALSE
    /\ upMs = 0
    /\ lowReads = 0
    /\ released = FALSE

\* main.rs:23,30-34: the state at reset, the cell holding `cell`
Boot(cell) ==
    /\ BLE_STATE = cell
    /\ led = "low"
    /\ mainPc = "boot"
    /\ mainTimer = 0
    /\ indPc = "unspawned"
    /\ indTimer = 0
    /\ state = NoValue
    /\ burst = 0
    /\ simPc = "unspawned"
    /\ simIdx = 1
    /\ simTimer = 0
    /\ lastPub = NoValue
    /\ unread = FALSE
    /\ sinceRead = 0
    /\ staleAge = 0
    /\ skipped = NoValue
    /\ shown = "no"
    /\ event = NoEvent

Init == Boot(InitialState) /\ probe \in Probes /\ KbReset("high")

(***************************************************************************)
(* main (main.rs:31-56).                                                   *)
(***************************************************************************)
\* main.rs:34-54: LED output created low, both tasks spawned, first sleep
MainBoot ==
    /\ mainPc = "boot"
    /\ led' = "low"
    /\ indPc' = "loop"
    /\ simPc' = "start"
    /\ mainPc' = "sleep"
    /\ mainTimer' = MainSleepMs
    /\ UNCHANGED <<BLE_STATE, indTimer, state, burst, simIdx, simTimer>>
    /\ UNCHANGED histVars /\ UNCHANGED eepVars

\* main.rs:53-55
MainWake ==
    /\ mainPc = "sleep"
    /\ mainTimer = 0
    /\ mainTimer' = MainSleepMs
    /\ UNCHANGED <<BLE_STATE, led, mainPc, indPc, indTimer, state, burst,
                   simPc, simIdx, simTimer>>
    /\ UNCHANGED histVars /\ UNCHANGED eepVars

(***************************************************************************)
(* ble_indicator_task (main.rs:60-108).                                    *)
(***************************************************************************)
IndFrame == UNCHANGED <<BLE_STATE, mainPc, mainTimer, simPc, simIdx, simTimer,
                        probe, lastPub, skipped, eepVars>>

\* main.rs:73-105: the head of the arm of a decoded state, up to its first await
ArmHead(ble_state) ==
    CASE ble_state = "Disconnected" ->
            /\ led' = "high" /\ indTimer' = DisconnectedOnMs /\ indPc' = "disc_on"
            /\ burst' = burst
      [] ble_state = "Advertising" ->
            /\ led' = "high" /\ indTimer' = AdvertisingOnMs /\ indPc' = "adv_on"
            /\ burst' = burst
      [] ble_state = "Connected" ->
            /\ led' = "high" /\ indTimer' = ConnectedHoldMs /\ indPc' = "conn"
            /\ burst' = burst
      [] ble_state = "LowBattery" ->
            IF 0 < LowBatteryBursts
            THEN /\ led' = "high" /\ indTimer' = LowBatteryOnMs /\ indPc' = "lb_on"
                 /\ burst' = 0
            ELSE /\ led' = led /\ indTimer' = LowBatteryPauseMs /\ indPc' = "lb_pause"
                 /\ burst' = 0

\* main.rs:64: BLE_STATE.load(SeqCst)
Loaded == BLE_STATE

\* main.rs:64-72: load the cell, decode, enter the arm
IndLoad ==
    /\ indPc = "loop"
    /\ state' = Loaded
    /\ ArmHead(Decode(state'))
    /\ sinceRead' = 0
    /\ staleAge' = 0
    /\ unread' = FALSE
    /\ event' = NoEvent
    /\ shown' = IF probe = "show" /\ shown = "no" THEN "read" ELSE shown
    /\ IndFrame

\* what a step inside an arm leaves alone
ArmFrame == UNCHANGED <<state, unread, sinceRead, staleAge, shown, event>>

\* what the end of an arm leaves alone; the value it rendered has been shown
EndFrame ==
    /\ shown' = IF shown = "read" THEN "done" ELSE shown
    /\ UNCHANGED <<state, unread, sinceRead, staleAge, event>>

\* mutant: the slow blink never drives the LED low
IndDiscOffStaysHigh ==
    /\ indPc = "disc_on" /\ indTimer = 0
    /\ led' = led /\ indTimer' = DisconnectedOffMs /\ indPc' = "disc_off"
    /\ UNCHANGED burst /\ ArmFrame /\ IndFrame

\* main.rs:77-79
IndDiscOff ==
    /\ indPc = "disc_on" /\ indTimer = 0
    /\ led' = "low" /\ indTimer' = DisconnectedOffMs /\ indPc' = "disc_off"
    /\ UNCHANGED burst /\ ArmFrame /\ IndFrame

\* mutant: the fast blink goes back to the load after its "on", the LED left low
IndAdvOffSkipsOff ==
    /\ indPc = "adv_on" /\ indTimer = 0
    /\ led' = "low" /\ indTimer' = 0 /\ indPc' = "loop"
    /\ UNCHANGED burst /\ ArmFrame /\ IndFrame

\* main.rs:85-87
IndAdvOff ==
    /\ indPc = "adv_on" /\ indTimer = 0
    /\ led' = "low" /\ indTimer' = AdvertisingOffMs /\ indPc' = "adv_off"
    /\ UNCHANGED burst /\ ArmFrame /\ IndFrame

\* mutant: the burst is left at the end of an "on" when the cell has changed
IndLbOffAbort ==
    /\ indPc = "lb_on" /\ indTimer = 0
    /\ IF BLE_STATE # state
       THEN /\ led' = led /\ indTimer' = 0 /\ indPc' = "loop"
       ELSE /\ led' = "low" /\ indTimer' = LowBatteryOffMs /\ indPc' = "lb_off"
    /\ UNCHANGED burst /\ ArmFrame /\ IndFrame

\* main.rs:100-102
IndLbOff ==
    /\ indPc = "lb_on" /\ indTimer = 0
    /\ led' = "low" /\ indTimer' = LowBatteryOffMs /\ indPc' = "lb_off"
    /\ UNCHANGED burst /\ ArmFrame /\ IndFrame

\* main.rs:98-104: the next pair of the burst, or the pause after the last one
IndLbNext ==
    /\ indPc = "lb_off" /\ indTimer = 0
    /\ burst' = burst + 1
    /\ IF burst + 1 < LowBatteryBursts
       THEN /\ led' = "high" /\ indTimer' = LowBatteryOnMs /\ indPc' = "lb_on"
       ELSE /\ led' = led /\ indTimer' = LowBatteryPauseMs /\ indPc' = "lb_pause"
    /\ ArmFrame /\ IndFrame

\* main.rs:63-107: the pcs whose delay is the last of an arm
ArmLastPcs == {"disc_off", "adv_off", "conn", "lb_pause"}

\* mutant: every arm, Connected too, drives the LED low before the next load
IndArmEndLedLow ==
    /\ indPc \in ArmLastPcs /\ indTimer = 0
    /\ indPc' = "loop" /\ led' = "low"
    /\ UNCHANGED <<indTimer, burst>> /\ EndFrame /\ IndFrame

\* mutant: the Connected arm holds the LED high in a loop of its own
IndArmEndConnectedHolds ==
    /\ indPc \in ArmLastPcs /\ indTimer = 0
    /\ IF indPc = "conn"
       THEN indPc' = "conn" /\ indTimer' = ConnectedHoldMs
       ELSE indPc' = "loop" /\ indTimer' = indTimer
    /\ UNCHANGED <<led, burst>> /\ EndFrame /\ IndFrame

\* main.rs:63,79,87,93,104: the arm's last delay is over, back to the top of the loop
IndArmEnd ==
    /\ indPc \in ArmLastPcs /\ indTimer = 0
    /\ indPc' = "loop"
    /\ UNCHANGED <<led, indTimer, burst>> /\ EndFrame /\ IndFrame

Indicator == IndLoad \/ IndDiscOff \/ IndAdvOff \/ IndLbOff \/ IndLbNext \/ IndArmEnd

(***************************************************************************)
(* ble_simulator_task (main.rs:113-141).                                   *)
(***************************************************************************)
SimFrame == event' = NoEvent /\ UNCHANGED <<mainPc, mainTimer, eepVars>>

\* main.rs:114-117
SimStart ==
    /\ simPc = "start"
    /\ Store(SimInitialStore)
    /\ simPc' = "iter"
    /\ UNCHANGED <<simIdx, simTimer>> /\ SimFrame

\* main.rs:129-139: one iteration up to its await
SimIter ==
    /\ simPc = "iter"
    /\ Store(states[simIdx].state)
    /\ simTimer' = states[simIdx].duration
    /\ simPc' = "wait"
    /\ UNCHANGED simIdx /\ SimFrame

\* main.rs:129: states.iter().cycle() yields the next pair
SimWake ==
    /\ simPc = "wait" /\ simTimer = 0
    /\ simIdx' = (simIdx % Len(states)) + 1
    /\ simPc' = "iter"
    /\ UNCHANGED <<BLE_STATE, led, mainPc, mainTimer, indPc, indTimer, state, burst,
                   simTimer>>
    /\ UNCHANGED histVars /\ UNCHANGED eepVars

Simulator == SimStart \/ SimIter \/ SimWake

(***************************************************************************)
(* handle_ble_event (main.rs:145-165), called by the bluetooth driver      *)
(* between two polls of the executor, any number of times.                 *)
(***************************************************************************)
HandleBleEvent ==
    /\ mainPc # "boot"
    /\ \E e \in BleEvents :
          IF EventValue(e) # NoValue
          THEN /\ Store(EventValue(e))
               /\ event' = IF probe = "event" THEN e ELSE event
          ELSE UNCHANGED <<BLE_STATE, led, indPc, indTimer, state, burst,
                           probe, lastPub, unread, sinceRead, staleAge, skipped,
                           shown, event>>
    /\ UNCHANGED <<mainPc, mainTimer, simPc, simIdx, simTimer>>
    /\ UNCHANGED eepVars

(***************************************************************************)
(* Passage of time: Quantum ms, when every spawned task is parked on a     *)
(* Timer that has not expired yet.                                         *)
(***************************************************************************)
Parked ==
    /\ mainPc = "sleep" /\ mainTimer > 0
    /\ indPc \notin {"unspawned", "loop"} /\ indTimer > 0
    /\ simPc = "wait" /\ simTimer > 0

Tick ==
    /\ Parked
    /\ mainTimer' = mainTimer - Quantum
    /\ indTimer' = indTimer - Quantum
    /\ simTimer' = simTimer - Quantum
    /\ staleAge' = IF probe = "age" /\ BLE_STATE # state
                    THEN Min(staleAge + Quantum, MaxAge) ELSE staleAge
    /\ sinceRead' = Min(sinceRead + Quantum, MaxAge)
    /\ UNCHANGED <<BLE_STATE, led, mainPc, indPc, state, burst, simPc, simIdx,
                   probe, lastPub, unread, skipped, shown, event>>
    /\ UNCHANGED eepVars

Next == MainBoot \/ MainWake \/ Indicator \/ Simulator \/ HandleBleEvent \/ Tick

Spec == Init /\ [][Next]_vars

(***************************************************************************)
(* Scheduling: the executor polls every woken task, and time passes.       *)
(***************************************************************************)
Fairness ==
    /\ WF_vars(Tick)
    /\ WF_vars(MainBoot \/ MainWake)
    /\ WF_vars(Indicator)
    /\ WF_vars(Simulator)

LiveInit == Boot(InitialState) /\ probe = "plain" /\ KbReset("high")

LiveSpec == LiveInit /\ [][Next]_vars /\ Fairness

(***************************************************************************)
(* The decoding of main.rs:65-71 applied to every value an AtomicU8 can    *)
(* hold: the cell starts with any of them.                                 *)
(***************************************************************************)
DecodeInit == \E n \in 0..U8Max : Boot(n) /\ probe = "plain" /\ KbReset("high")

DecodeSpec == DecodeInit /\ [][Next]_vars

(***************************************************************************)
(* The program as main.rs builds it: nothing calls handle_ble_event, the   *)
(* simulator is the only writer of the cell.                               *)
(***************************************************************************)
SimInit == Boot(InitialState) /\ probe = "show" /\ KbReset("high")

SimNext == MainBoot \/ MainWake \/ Indicator \/ Simulator \/ Tick

SimSpec == SimInit /\ [][SimNext]_vars /\ Fairness

(***************************************************************************)
(* What the indicator is doing.                                            *)
(***************************************************************************)
\* the pattern whose arm the indicator is in; "None" outside every arm
Rendering ==
    CASE indPc \in {"disc_on", "disc_off"} -> "Disconnected"
      [] indPc \in {"adv_on", "adv_off"} -> "Advertising"
      [] indPc = "conn" -> "Connected"
      [] indPc \in {"lb_on", "lb_off", "lb_pause"} -> "LowBattery"
      [] OTHER -> "None"

StateValues == 0..3

(***************************************************************************)
(* C1: under fair scheduling of the tasks and of time, every store is     *)
(* followed by a load of the indicator after which the indicator holds     *)
(* the value of the latest store; and once the indicator holds the cell's  *)
(* value it keeps it for as long as the cell keeps it, rendering the       *)
(* pattern of the value it holds.  So a value stored and not followed by   *)
(* a different one is eventually loaded and rendered from then on.         *)
(***************************************************************************)
C1_LatestEventuallyObserved ==
    /\ unread ~> (~unread /\ state = lastPub)
    /\ [][(state = BLE_STATE /\ BLE_STATE' = BLE_STATE) => state' = state]_vars
    /\ [](Rendering # "None" => Rendering = Decode(state))

C1_Witness ==
    /\ lastPub = 3 /\ state = 3 /\ ~unread /\ sinceRead > 0
    /\ Rendering = "LowBattery"

(***************************************************************************)
(* C2 as stated: a new value stored while Advertising is rendered is       *)
(* rendered within 250 ms of the store, while LowBattery is rendered       *)
(* within 1000 ms.  staleAge is the time the stored value has waited.      *)
(***************************************************************************)
C2_OneSubUnitLatency ==
    (probe = "age" /\ state # NoValue /\ BLE_STATE # state) =>
        /\ Decode(state) = "Advertising" => staleAge <= 250
        /\ Decode(state) = "LowBattery" => staleAge <= 1000

(***************************************************************************)
(* C2 amended: a new value stored while a pattern is rendered waits at     *)
(* most one full cycle of that pattern for the indicator's next load: 500  *)
(* ms under Advertising, 1600 ms under LowBattery; the load takes the      *)
(* cell's value and the indicator renders it.                              *)
(***************************************************************************)
C2_OneCycleLatency ==
    /\ (probe = "age" /\ state # NoValue /\ BLE_STATE # state) =>
          /\ Decode(state) = "Advertising" => staleAge <= 500
          /\ Decode(state) = "LowBattery" => staleAge <= 1600
    /\ (Rendering # "None" /\ ~unread) => Rendering = Decode(BLE_STATE)

C2_Witness ==
    /\ probe = "age" /\ indPc = "loop"
    /\ state = 1 /\ BLE_STATE = 2 /\ staleAge = 500

(***************************************************************************)
(* C3 as stated: Disconnected stored while Connected is rendered is        *)
(* rendered within 250 ms of the store.                                    *)
(***************************************************************************)
C3_ConnectedLatency250 ==
    (probe = "age" /\ state = 2 /\ BLE_STATE = 0) => staleAge <= 250

(***************************************************************************)
(* C3 amended: while Connected is rendered the indicator loads the cell    *)
(* every 1000 ms, so Disconnected stored meanwhile waits at most 1000 ms   *)
(* for the load; having loaded it the indicator starts the slow blink      *)
(* with the LED high.                                                      *)
(***************************************************************************)
C3_ConnectedRecheck ==
    /\ (state = 2 /\ indPc = "loop") => sinceRead = 1000
    /\ state = 2 => sinceRead <= 1000
    /\ (probe = "age" /\ state = 2 /\ BLE_STATE = 0) => staleAge <= 1000
    /\ (state = 0 /\ sinceRead < 100) => (indPc = "disc_on" /\ led = "high")

C3_Witness ==
    /\ probe = "age" /\ indPc = "loop"
    /\ state = 2 /\ BLE_STATE = 0 /\ staleAge = 1000

(***************************************************************************)
(* C4 as stated: as long as nothing has been stored into the cell the LED  *)
(* is low.                                                                 *)
(***************************************************************************)
C4_DarkBeforeFirstStore == lastPub = NoValue => led = "low"

(***************************************************************************)
(* C4 amended: as long as nothing has been stored the cell holds 0, and    *)
(* the indicator, when polled, renders the Disconnected pattern and no     *)
(* other: the LED is high only in the "on" of the slow blink.              *)
(***************************************************************************)
C4_DisconnectedBeforeFirstStore ==
    lastPub = NoValue =>
        /\ BLE_STATE = 0
        /\ state \in {NoValue, 0}
        /\ Rendering \in {"None", "Disconnected"}
        /\ led = "high" => indPc = "disc_on"

C4_Witness == lastPub = NoValue /\ led = "high" /\ indPc = "disc_on"

(***************************************************************************)
(* C5 as stated: whenever the indicator is back at the top of its loop,    *)
(* an arm behind it, the LED is low.                                       *)
(***************************************************************************)
C5_LowAtEveryExit == (indPc = "loop" /\ state # NoValue) => led = "low"

(***************************************************************************)
(* C5 amended: back at the top of its loop the indicator has left the LED  *)
(* low after the Disconnected, Advertising and LowBattery arms, and high   *)
(* after the Connected arm.                                                *)
(***************************************************************************)
C5_LowAtExitButConnected ==
    (indPc = "loop" /\ state # NoValue) =>
        (led = "low" <=> Decode(state) # "Connected")

C5_Witness == indPc = "loop" /\ state = 0 /\ led = "low" /\ sinceRead = 1000

(***************************************************************************)
(* C6: a load that follows stores holds the value of the last of them:     *)
(* the indicator renders its pattern, and a value an unread store was      *)
(* overwritten with is not the one it holds.                               *)
(***************************************************************************)
C6_LatestValueWins ==
    (state # NoValue /\ ~unread) =>
        /\ state = BLE_STATE
        /\ lastPub # NoValue => state = lastPub
        /\ skipped # NoValue => state # skipped
        /\ Rendering \in {"None", Decode(BLE_STATE)}

C6_Witness ==
    /\ probe = "skip" /\ ~unread
    /\ skipped = 1 /\ state = 2 /\ indPc = "conn"

(***************************************************************************)
(* C7: a value outside 0..3 that the indicator has loaded is rendered as   *)
(* the slow blink: LED high for the first 100 ms after the load, low for   *)
(* the next 900 ms, then the indicator is back at the top of its loop.     *)
(***************************************************************************)
C7_UnknownIsDisconnected ==
    (state # NoValue /\ state \notin StateValues) =>
        \/ indPc = "disc_on" /\ led = "high" /\ sinceRead <= 100
              /\ indTimer = 100 - sinceRead
        \/ indPc = "disc_off" /\ led = "low" /\ sinceRead \in 100..1000
              /\ indTimer = 1000 - sinceRead
        \/ indPc = "loop" /\ led = "low" /\ sinceRead = 1000

C7_Witness == state = 255 /\ indPc = "loop" /\ led = "low" /\ sinceRead = 1000

(***************************************************************************)
(* The time the indicator has spent in its arm, from its position: the     *)
(* delays behind it and the part of the current one that has passed.       *)
(***************************************************************************)
ArmElapsed ==
    CASE indPc = "disc_on" -> DisconnectedOnMs - indTimer
      [] indPc = "disc_off" -> DisconnectedOnMs + DisconnectedOffMs - indTimer
      [] indPc = "adv_on" -> AdvertisingOnMs - indTimer
      [] indPc = "adv_off" -> AdvertisingOnMs + AdvertisingOffMs - indTimer
      [] indPc = "conn" -> ConnectedHoldMs - indTimer
      [] indPc = "lb_on" ->
            burst * (LowBatteryOnMs + LowBatteryOffMs) + LowBatteryOnMs - indTimer
      [] indPc = "lb_off" ->
            (burst + 1) * (LowBatteryOnMs + LowBatteryOffMs) - indTimer
      [] indPc = "lb_pause" ->
            burst * (LowBatteryOnMs + LowBatteryOffMs) + LowBatteryPauseMs - indTimer
      [] OTHER -> sinceRead

(***************************************************************************)
(* C8: a store of the value the cell already holds changes nothing of the  *)
(* indicator (LED, position, timer, loaded value), whoever stores; and the *)
(* indicator's position in its pattern is always the time since its load,  *)
(* whatever was stored meanwhile.                                          *)
(***************************************************************************)
C8_RedundantStoreIdempotent ==
    /\ [][((HandleBleEvent \/ SimStart \/ SimIter) /\ BLE_STATE' = BLE_STATE)
            => UNCHANGED <<led, indPc, indTimer, state, burst, sinceRead>>]_vars
    /\ [](state # NoValue => ArmElapsed = sinceRead)

C8_Witness ==
    /\ probe = "skip" /\ unread /\ skipped = NoValue
    /\ lastPub = 1 /\ state = 1 /\ BLE_STATE = 1
    /\ indPc = "adv_off" /\ sinceRead = 400

(***************************************************************************)
(* C9: having loaded LowBattery the indicator stays in the burst until it  *)
(* is over, whatever is stored meanwhile: the LED is high only in an "on", *)
(* and the indicator is back at the top of its loop, where it loads the    *)
(* next value, only with the LED low and all three pairs done.             *)
(***************************************************************************)
C9_BurstNotCutShort ==
    (state # NoValue /\ Decode(state) = "LowBattery") =>
        /\ indPc \in {"lb_on", "lb_off", "lb_pause", "loop"}
        /\ led = "high" <=> indPc = "lb_on"
        /\ indPc = "loop" => (led = "low" /\ burst = 3)

C9_Witness ==
    /\ probe = "age" /\ indPc = "loop" /\ state = 3 /\ led = "low" /\ burst = 3
    /\ BLE_STATE # 3 /\ staleAge >= 1550

(***************************************************************************)
(* C10: for 1600 ms after a load of LowBattery the LED is high during      *)
(* 0-100, 200-300 and 400-500 ms and low during 100-200, 300-400 and       *)
(* 500-1600 ms (at the instants of a change either level may be seen);     *)
(* the next load comes at exactly 1600 ms.                                 *)
(***************************************************************************)
LowBatteryLevel(t) == IF t < 600 /\ t % 200 < 100 THEN "high" ELSE "low"

C10_LowBatteryCycle ==
    state = 3 =>
        /\ sinceRead <= 1600
        /\ indPc = "loop" <=> (sinceRead = 1600 /\ indTimer = 0 /\ indPc # "lb_pause")
        /\ (sinceRead \notin {100, 200, 300, 400, 500}) =>
              (indPc = "loop" \/ led = LowBatteryLevel(sinceRead))
        /\ indPc = "loop" => led = "low"

C10_Witness ==
    /\ state = 3 /\ BLE_STATE = 3 /\ ~unread
    /\ indPc = "loop" /\ burst = 3 /\ sinceRead = 1600 /\ led = "low"

(***************************************************************************)
(* C11: for 1000 ms after a load of Disconnected the LED is high during    *)
(* 0-100 ms and low during 100-1000 ms; for 500 ms after a load of         *)
(* Advertising it is high during 0-250 ms and low during 250-500 ms (at    *)
(* the instant of the change either level may be seen).  The indicator is  *)
(* at its load only when that full cycle is over, once per cycle.          *)
(***************************************************************************)
C11_BlinkCycles ==
    /\ state = 0 =>
          /\ sinceRead <= 1000
          /\ indPc = "loop" <=> (sinceRead = 1000 /\ indTimer = 0 /\ indPc # "disc_off")
          /\ sinceRead < 100 => led = "high"
          /\ sinceRead > 100 => led = "low"
    /\ state = 1 =>
          /\ sinceRead <= 500
          /\ indPc = "loop" <=> (sinceRead = 500 /\ indTimer = 0 /\ indPc # "adv_off")
          /\ sinceRead < 250 => led = "high"
          /\ sinceRead > 250 => led = "low"

C11_Witness ==
    /\ state = 1 /\ BLE_STATE = 1 /\ ~unread
    /\ indPc = "loop" /\ sinceRead = 500 /\ led = "low"

(***************************************************************************)
(* C12: from a load of Connected on, and through every following load      *)
(* that returns Connected again, the LED is high: the indicator is in the  *)
(* Connected arm or at its load, and nothing has driven the LED low.       *)
(***************************************************************************)
C12_ConnectedSteadyHigh ==
    /\ [](state = 2 => (led = "high" /\ indPc \in {"conn", "loop"}))
    /\ [][(state = 2 /\ state' = 2) => led' = "high"]_vars

C12_Witness ==
    /\ state = 2 /\ BLE_STATE = 2 /\ ~unread /\ led = "high"
    /\ indPc = "conn" /\ sinceRead = 0
    /\ simPc = "wait" /\ simIdx = 2 /\ simTimer = 5000

(***************************************************************************)
(* C13: handle_ble_event stores 2 for a connection, 0 for a disconnection, *)
(* 1 for the start of advertising and 3 for a low battery, whatever the    *)
(* connection handle the event carries; the step that handles the event is *)
(* one store, the latest, and touches nothing else of the tasks.           *)
(***************************************************************************)
C13_EventPublishes ==
    /\ [](event # NoEvent =>
            /\ unread /\ BLE_STATE = lastPub
            /\ event.kind \in {"Connected", "Disconnected",
                               "AdvertisingStarted", "BatteryLow"}
            /\ event.kind = "Connected" => BLE_STATE = 2
            /\ event.kind = "Disconnected" => BLE_STATE = 0
            /\ event.kind = "AdvertisingStarted" => BLE_STATE = 1
            /\ event.kind = "BatteryLow" => BLE_STATE = 3)
    /\ [][(event' # NoEvent /\ event' # event) =>
            /\ lastPub' = BLE_STATE' /\ unread'
            /\ UNCHANGED <<led, indPc, indTimer, state, burst, simPc, simIdx, simTimer>>]_vars

C13_Witness ==
    /\ probe = "event" /\ event = [kind |-> "Connected", handle |-> 65535]
    /\ BLE_STATE = 2 /\ state = 1 /\ indPc = "adv_on"
    /\ simPc = "wait" /\ simIdx = 1

(***************************************************************************)
(* The storage clear at the keyboard firmware's startup                    *)
(* (src/src/src/main.rs).  main is the only task.  The BOOT button is the  *)
(* user's: its level changes at any instant.  flash.erase succeeds or      *)
(* fails, as the flash controller decides.                                 *)
(***************************************************************************)
GatePolls == 30              \* src/main.rs:88
GateDelayMs == 100           \* src/main.rs:90
FLASH_PAGES == 4             \* src/main.rs:102
flash_size == 524288         \* src/main.rs:108, 0x80000
page_size == 4096            \* src/main.rs:109

\* mutant: the region starts one page late and ends one page past the flash
StartPageOneLate == (flash_size \div page_size) - FLASH_PAGES + 1

\* src/main.rs:112
start_page == (flash_size \div page_size) - FLASH_PAGES

\* src/main.rs:113
start_addr == start_page * page_size

\* src/main.rs:119-120: the call flash.erase(addr, addr + page_size) of iteration i
EraseCall(i, ok) ==
    [from |-> start_addr + i * page_size,
     to |-> start_addr + i * page_size + page_size,
     ok |-> ok]

KbFrame == UNCHANGED bleVars

\* src/main.rs:20-22,83-85: init, the button input created, the gate's loop entered
KbBoot ==
    /\ kbPc = "boot"
    /\ kbPc' = "sample"
    /\ polls' = 0
    /\ UNCHANGED <<button, gateTimer, page, erases, result, reported, upMs,
                   lowReads, released>>
    /\ KbFrame

\* mutant: a released button does not end the gate
GateSampleIgnoresRelease ==
    /\ kbPc = "sample" /\ polls < GatePolls
    /\ kbPc' = "gate_wait" /\ gateTimer' = GateDelayMs
    /\ lowReads' = IF button = "low" THEN lowReads + 1 ELSE lowReads
    /\ released' = (released \/ button = "high")
    /\ UNCHANGED <<button, polls, page, erases, result, reported, upMs>>
    /\ KbFrame

\* src/main.rs:88-93: one iteration of the gate up to its await; on a released
\* button should_clear_eeprom returns false and main goes on at src/main.rs:44
GateSample ==
    /\ kbPc = "sample" /\ polls < GatePolls
    /\ IF button = "low"
       THEN /\ kbPc' = "gate_wait" /\ gateTimer' = GateDelayMs
            /\ lowReads' = lowReads + 1
            /\ UNCHANGED released
       ELSE /\ kbPc' = "keyboard"
            /\ released' = TRUE
            /\ UNCHANGED <<gateTimer, lowReads>>
    /\ UNCHANGED <<button, polls, page, erases, result, reported, upMs>>
    /\ KbFrame

\* src/main.rs:90: the gate's timer expires, the next iteration begins
GateWake ==
    /\ kbPc = "gate_wait" /\ gateTimer = 0
    /\ polls' = polls + 1
    /\ kbPc' = "sample"
    /\ UNCHANGED <<button, gateTimer, page, erases, result, reported, upMs,
                   lowReads, released>>
    /\ KbFrame

\* src/main.rs:88,96-97,29-30,102-116: the loop is over, should_clear_eeprom
\* returns true, main calls clear_eeprom
GateDone ==
    /\ kbPc = "sample" /\ polls = GatePolls
    /\ kbPc' = "clear"
    /\ page' = 0
    /\ UNCHANGED <<button, polls, gateTimer, erases, result, reported, upMs,
                   lowReads, released>>
    /\ KbFrame

\* src/main.rs:90: GateDelayMs of time pass while main is parked on the gate's timer
GateTick ==
    /\ kbPc = "gate_wait" /\ gateTimer > 0
    /\ gateTimer' = gateTimer - GateDelayMs
    /\ upMs' = upMs + GateDelayMs
    /\ UNCHANGED <<kbPc, button, polls, page, erases, result, reported,
                   lowReads, released>>
    /\ KbFrame

\* the user presses or releases the BOOT button (P0_11, src/main.rs:83)
ButtonChange ==
    /\ button' = IF button = "low" THEN "high" ELSE "low"
    /\ UNCHANGED <<kbPc, polls, gateTimer, page, erases, result, reported, upMs,
                   lowReads, released>>
    /\ KbFrame

\* mutant: a failed erase is tried again
ClearEraseRetries ==
    /\ kbPc = "clear" /\ page < FLASH_PAGES /\ Len(erases) < 2 * FLASH_PAGES
    /\ \E ok \in BOOLEAN :
          /\ erases' = Append(erases, EraseCall(page, ok))
          /\ page' = IF ok THEN page + 1 ELSE page
    /\ UNCHANGED <<kbPc, result, reported>>
    /\ UNCHANGED <<button, polls, gateTimer, upMs, lowReads, released>>
    /\ KbFrame

\* src/main.rs:118-123,31-32: one iteration of clear_eeprom; on a failed erase it
\* returns Err, main logs it and goes on at src/main.rs:44
ClearErase ==
    /\ kbPc = "clear" /\ page < FLASH_PAGES
    /\ \E ok \in BOOLEAN :
          /\ erases' = Append(erases, EraseCall(page, ok))
          /\ IF ok
             THEN /\ page' = page + 1
                  /\ UNCHANGED <<kbPc, result, reported>>
             ELSE /\ result' = "err"
                  /\ reported' = TRUE
                  /\ kbPc' = "keyboard"
                  /\ UNCHANGED page
    /\ UNCHANGED <<button, polls, gateTimer, upMs, lowReads, released>>
    /\ KbFrame

\* mutant: after a clear that succeeded main goes on to the keyboard
ClearDoneFallsThrough ==
    /\ kbPc = "clear" /\ page = FLASH_PAGES
    /\ result' = "ok"
    /\ kbPc' = "keyboard"
    /\ UNCHANGED <<button, polls, gateTimer, page, erases, reported, upMs,
                   lowReads, released>>
    /\ KbFrame

\* src/main.rs:118,126,33-36: the loop is over, clear_eeprom returns Ok, main
\* enters its wfi loop
ClearDone ==
    /\ kbPc = "clear" /\ page = FLASH_PAGES
    /\ result' = "ok"
    /\ kbPc' = "halt"
    /\ UNCHANGED <<button, polls, gateTimer, page, erases, reported, upMs,
                   lowReads, released>>
    /\ KbFrame

\* src/main.rs:36-38: loop { wfi() }
KbHalt ==
    /\ kbPc = "halt"
    /\ UNCHANGED eepVars
    /\ KbFrame

\* src/main.rs:44-48: the keyboard is created and run
KbInit ==
    /\ kbPc = "keyboard"
    /\ kbPc' = "run"
    /\ UNCHANGED <<button, polls, gateTimer, page, erases, result, reported, upMs,
                   lowReads, released>>
    /\ KbFrame

\* the steps of main
KbMain ==
    \/ KbBoot \/ GateSample \/ GateWake \/ GateDone \/ GateTick
    \/ ClearErase \/ ClearDone \/ KbHalt \/ KbInit

EepNext == KbMain \/ ButtonChange

EepInit == Boot(InitialState) /\ probe = "plain" /\ \E level \in {"low", "high"} : KbReset(level)

\* main is the executor's only task: it runs whenever it can, and time passes
EepFairness == WF_vars(KbMain)

EepromSpec == EepInit /\ [][EepNext]_vars /\ EepFairness

(***************************************************************************)
(* C14: clear_eeprom is called only after 30 reads of the button, 100 ms   *)
(* apart from startup on, that all returned low, 3000 ms after startup; a  *)
(* read that returns high ends the gate at once: nothing is erased, ever,  *)
(* and main goes on to the keyboard.                                       *)
(***************************************************************************)
C14_EraseOnlyAfterHold ==
    /\ [](kbPc = "sample" => upMs = GateDelayMs * polls /\ lowReads = polls)
    /\ []((kbPc \in {"clear", "halt"} \/ erases # <<>> \/ result # "none") =>
            /\ lowReads = 30 /\ ~released /\ upMs = 3000)
    /\ [](released =>
            /\ kbPc \in {"keyboard", "run"} /\ erases = <<>> /\ result = "none"
            /\ upMs = GateDelayMs * lowReads)
    /\ [][(kbPc = "sample" /\ button = "high" /\ polls < 30 /\ kbPc' # kbPc) =>
            kbPc' = "keyboard"]_vars

C14_Witness ==
    /\ kbPc = "clear" /\ page = 0 /\ erases = <<>> /\ lowReads = 30 /\ upMs = 3000

(***************************************************************************)
(* C15: once clear_eeprom has returned Ok, with every page erased, main is *)
(* in its wfi loop and stays there: the keyboard is never created nor run. *)
(* Once it has returned Err the failure has been logged, main never halts, *)
(* and it goes on to create and run the keyboard.                          *)
(***************************************************************************)
C15_HaltOrContinue ==
    /\ [](result = "ok" =>
            /\ kbPc = "halt"
            /\ Len(erases) = FLASH_PAGES
            /\ \A k \in 1..Len(erases) : erases[k].ok)
    /\ [][kbPc = "halt" => kbPc' = "halt"]_vars
    /\ [](result = "err" => (reported /\ kbPc \in {"keyboard", "run"}))
    /\ [](reported => result = "err")
    /\ (result = "err") ~> (kbPc = "run")

C15_Witness ==
    /\ result = "err" /\ reported /\ kbPc = "run"
    /\ Len(erases) = 2 /\ ~erases[2].ok

(***************************************************************************)
(* C16: clear_eeprom erases page 0, 1, 2, 3 in this order, each at most    *)
(* once; a failed erase is the last one: the routine returns Err at once,  *)
(* and nothing is erased after it has returned.  It returns Ok only after  *)
(* four erases that all succeeded.                                         *)
(***************************************************************************)
C16_AbortOnFirstFailure ==
    /\ [](/\ Len(erases) <= FLASH_PAGES
          /\ \A k \in 1..Len(erases) :
                /\ erases[k].from = start_addr + (k - 1) * page_size
                /\ k < Len(erases) => erases[k].ok)
    /\ []((erases # <<>> /\ ~erases[Len(erases)].ok) => result = "err")
    /\ [](result = "err" => (erases # <<>> /\ ~erases[Len(erases)].ok))
    /\ [](result = "ok" =>
            (Len(erases) = FLASH_PAGES /\ \A k \in 1..FLASH_PAGES : erases[k].ok))
    /\ [][result # "none" => erases' = erases]_vars

C16_Witness ==
    /\ result = "err" /\ Len(erases) = 3
    /\ erases[1].ok /\ erases[2].ok /\ ~erases[3].ok

(***************************************************************************)
(* C17: every erase of clear_eeprom covers one 4096-byte page of the last  *)
(* four of the 0x80000-byte flash, 0x7C000, 0x7D000, 0x7E000, 0x7F000 in   *)
(* this order; none reaches below 0x10000 nor up to 0x80000 or beyond.     *)
(***************************************************************************)
C17_LastFourPages ==
    \A k \in 1..Len(erases) :
        /\ erases[k].from = 507904 + (k - 1) * 4096
        /\ erases[k].to = erases[k].from + 4096
        /\ erases[k].from % 4096 = 0
        /\ erases[k].from >= 65536
        /\ erases[k].to <= 524288
        /\ k > 1 => erases[k].from > erases[k - 1].from

C17_Witness ==
    /\ result = "ok" /\ Len(erases) = 4
    /\ erases[1].from = 507904 /\ erases[4].to = 524288

(***************************************************************************)
(* C18: with the simulator the only writer, whenever the simulator changes *)
(* the cell, the indicator has loaded the value the cell held and has      *)
(* completed an arm of its pattern since; and after every change of the    *)
(* cell it does so again.                                                  *)
(***************************************************************************)
C18_EveryPhaseRendered ==
    /\ [][(BLE_STATE' # BLE_STATE /\ lastPub # NoValue) =>
            (shown = "done" /\ state = BLE_STATE)]_vars
    /\ [](shown = "done" => state = BLE_STATE)
    /\ (lastPub # NoValue /\ shown = "no") ~> (shown = "done")

C18_Witness ==
    /\ probe = "show" /\ simIdx = 4 /\ simPc = "wait" /\ simTimer = 0
    /\ BLE_STATE = 3 /\ state = 3 /\ shown = "done"

(***************************************************************************)
(* C19: the indicator is back at its load of the cell 1000 ms after a load *)
(* of 0, 500 ms after a load of 1, 1000 ms after a load of 2 and 1600 ms   *)
(* after a load of 3, whatever is stored meanwhile; never more than        *)
(* 1600 ms pass without a load, and the loads never cease.                 *)
(***************************************************************************)
C19_PollPeriod ==
    /\ []((indPc = "loop" /\ state # NoValue) =>
            sinceRead = CASE state = 0 -> 1000
                          [] state = 1 -> 500
                          [] state = 2 -> 1000
                          [] state = 3 -> 1600)
    /\ [](sinceRead <= 1600)
    /\ [](state # NoValue => state \in 0..3)
    /\ (indPc \notin {"unspawned", "loop"}) ~> (indPc = "loop")
    /\ (indPc = "loop") ~> (indPc # "loop" /\ sinceRead = 0)

C19_Witness ==
    /\ indPc = "loop" /\ state = 3 /\ sinceRead = 1600
    /\ unread /\ BLE_STATE = 0

(***************************************************************************)
(* C20: whatever the simulator and handle_ble_event do, and in whatever    *)
(* order, the cell holds 0, 1, 2 or 3, and so does every value the         *)
(* indicator has loaded: the arm taken is never the `_` fallback of the    *)
(* decoding.                                                               *)
(***************************************************************************)
C20_CellInRange ==
    /\ BLE_STATE \in StateValues
    /\ lastPub # NoValue => lastPub \in StateValues
    /\ state # NoValue => state \in StateValues

C20_Witness ==
    /\ BLE_STATE = 3 /\ state = 3 /\ lastPub = 3 /\ indPc = "lb_on"
    /\ simPc = "wait" /\ simIdx = 2

====
